---- MODULE Spec2Model ----
(***************************************************************************)
(* Model of the CAD offset endpoint of cad/views.py: the four decoders     *)
(* (JSON, delimited text, ASCII STL, binary STL), the autodetection chain  *)
(* parse_cad_points, offset_points, the ASCII STL emitter and the request  *)
(* handler offset_view.                                                    *)
(*                                                                         *)
(* Floats are modelled as normalised decimals m * 10^e.  An uploaded file  *)
(* is one of: a JSON document (an abstract JSON value), a text made of     *)
(* lines of whitespace-separated words, or a raw byte sequence.            *)
(***************************************************************************)
EXTENDS Integers, Sequences, FiniteSets, TLC

VARIABLES
  pc,            \* where the call is
  request,       \* the request (or the arguments of the function called)
  calls,         \* what the handler has called so far, in order
  offset_value,  \* offset_view's local
  parsed,        \* what parse_cad_points (or a decoder) returned or raised
  offsets,       \* what offset_points returned or raised
  response,      \* what offset_view answered
  emitted        \* what _generate_ascii_stl returned

vars == <<pc, request, calls, offset_value, parsed, offsets, response, emitted>>

(***************************************************************************)
(* Floats.  A float is [m, e], standing for m * 10^e, with m = 0 => e = 0  *)
(* and m not divisible by 10 otherwise, so that equal numbers are equal    *)
(* records.                                                                *)
(***************************************************************************)

\* Largest and smallest decimal exponent of a finite non-zero double.
FloatMaxExp10 == 308
FloatMinExp10 == -324
\* Significant decimal digits of a double: a smaller addend is absorbed.
FloatDigits == 15
\* Decimals kept by format_float (":.6f").
FormatDecimals == 6
\* Digits kept by a float division whose quotient is not exact.
DivDigits == 3

RECURSIVE Pow10(_)
Pow10(k) == IF k <= 0 THEN 1 ELSE 10 * Pow10(k - 1)

Abs(i) == IF i < 0 THEN -i ELSE i

RECURSIVE Digits(_)
Digits(i) == IF Abs(i) < 10 THEN 1 ELSE 1 + Digits(Abs(i) \div 10)

RECURSIVE Norm(_, _)
Norm(m, e) ==
  IF m = 0 THEN [m |-> 0, e |-> 0]
  ELSE IF m % 10 = 0 THEN Norm(m \div 10, e + 1)
  ELSE [m |-> m, e |-> e]

Zero == Norm(0, 0)
One == Norm(1, 0)
Num(i) == Norm(i, 0)

\* floor(log10 |x|) of a non-zero float.
Exp10(x) == Digits(x.m) + x.e - 1

IsZero(x) == x.m = 0

Neg(x) == [m |-> -x.m, e |-> x.e]

\* x * y (the product of the model's values never leaves the double range).
Mul(x, y) == Norm(x.m * y.m, x.e + y.e)

\* x + y: exact when the two are within FloatDigits digits of each other,
\* otherwise the smaller one is absorbed by rounding.
Add(x, y) ==
  IF IsZero(x) THEN y
  ELSE IF IsZero(y) THEN x
  ELSE IF Exp10(x) - Exp10(y) > FloatDigits THEN x
  ELSE IF Exp10(y) - Exp10(x) > FloatDigits THEN y
  ELSE LET e == IF x.e < y.e THEN x.e ELSE y.e
       IN  Norm(x.m * Pow10(x.e - e) + y.m * Pow10(y.e - e), e)

\* x / y for y # 0, to DivDigits digits (exact for the quotients the model
\* meets: a component of an axis-aligned normal over its magnitude).
Div(x, y) ==
  LET s == IF (x.m < 0) = (y.m < 0) THEN 1 ELSE -1
      q == (Abs(x.m) * Pow10(DivDigits)) \div Abs(y.m)
  IN  Norm(s * q, x.e - y.e - DivDigits)

\* Python's float ** 2: OverflowError when the square leaves the double
\* range, 0.0 when it underflows.
PowOverflows(x) == ~IsZero(x) /\ 2 * Exp10(x) > FloatMaxExp10

Square(x) ==
  IF IsZero(x) \/ 2 * Exp10(x) + 1 < FloatMinExp10 THEN Zero
  ELSE Norm(x.m * x.m, 2 * x.e)

RECURSIVE ISqrt(_, _)
ISqrt(n, r) == IF (r + 1) * (r + 1) > n THEN r ELSE ISqrt(n, r + 1)

\* x ** 0.5 for x >= 0 (exact when x is a perfect square).
Sqrt(x) ==
  IF IsZero(x) THEN Zero
  ELSE IF x.e % 2 = 0 THEN Norm(ISqrt(x.m, 0), x.e \div 2)
  ELSE Norm(ISqrt(x.m * 10, 0), (x.e - 1) \div 2)

(***************************************************************************)
(* Outcomes of a call: a returned value or a raised exception.             *)
(***************************************************************************)

Return(v) == [ok |-> TRUE, val |-> v, exc |-> "", msg |-> "", at |-> 0]

Raise(exc, msg, at) == [ok |-> FALSE, val |-> <<>>, exc |-> exc, msg |-> msg, at |-> at]

\* class CADParseError(ValueError)
CADParseError(msg, at) == Raise("CADParseError", msg, at)

\* @dataclass class PointData
PointData(position, normal) == [position |-> position, normal |-> normal]

(***************************************************************************)
(* JSON values, as json.loads returns them: t is the Python type and the   *)
(* field of that type holds the value (b a bool, x a float, chars a str,   *)
(* items a list, dict a dict); the other fields are fillers.  A str is its *)
(* sequence of characters, a digit 0..9 or -1 for any other character; a   *)
(* dict is a function from its keys.                                       *)
(***************************************************************************)

JNull ==
  [t |-> "null", b |-> FALSE, x |-> Zero, chars |-> <<>>, items |-> <<>>, dict |-> <<>>]
JBool(b) == [JNull EXCEPT !.t = "bool", !.b = b]
JNum(x) == [JNull EXCEPT !.t = "float", !.x = x]
\* An integer literal too large for a double.
JBigInt == [JNull EXCEPT !.t = "bigint"]
JStr(chars) == [JNull EXCEPT !.t = "str", !.chars = chars]
JList(items) == [JNull EXCEPT !.t = "list", !.items = items]
JDict(d) == [JNull EXCEPT !.t = "dict", !.dict = d]

NotDigit == -1

RECURSIVE DigitsValue(_)
DigitsValue(chars) ==
  IF chars = <<>> THEN 0
  ELSE 10 * DigitsValue(SubSeq(chars, 1, Len(chars) - 1)) + chars[Len(chars)]

\* float(value) on a JSON value.
PyFloat(j) ==
  CASE j.t = "float" -> Return(j.x)
    [] j.t = "bool" -> Return(IF j.b THEN One ELSE Zero)
    [] j.t = "bigint" -> Raise("OverflowError", "int too large to convert to float", 0)
    [] j.t = "str" ->
         IF j.chars # <<>> /\ \A i \in 1..Len(j.chars) : j.chars[i] # NotDigit
         THEN Return(Num(DigitsValue(j.chars)))
         ELSE Raise("ValueError", "could not convert string to float", 0)
    [] OTHER -> Raise("TypeError", "float() argument must be a string or a real number", 0)

\* for value in j: the values the iteration yields.
PyIter(j) ==
  CASE j.t = "list" -> Return(j.items)
    [] j.t = "str" -> Return([i \in 1..Len(j.chars) |-> JStr(<<j.chars[i]>>)])
    [] j.t = "dict" -> Return([i \in 1..Cardinality(DOMAIN j.dict) |-> JStr(<<NotDigit>>)])
    [] OTHER -> Raise("TypeError", "object is not iterable", 0)

\* j[key] with a str key.
PyGetItem(j, key) ==
  CASE j.t = "dict" ->
         IF key \in DOMAIN j.dict THEN Return(j.dict[key]) ELSE Raise("KeyError", key, 0)
    [] j.t \in {"list", "str"} -> Raise("TypeError", "indices must be integers", 0)
    [] OTHER -> Raise("TypeError", "object is not subscriptable", 0)

\* tuple(float(value) for value in j): the first exception raised, if any.
RECURSIVE FloatAll(_)
FloatAll(values) ==
  IF values = <<>> THEN Return(<<>>)
  ELSE LET f == PyFloat(Head(values))
       IN  IF ~f.ok THEN f
           ELSE LET rest == FloatAll(Tail(values))
                IN  IF ~rest.ok THEN rest ELSE Return(<<f.val>> \o rest.val)

FloatTuple(j) ==
  LET it == PyIter(j) IN IF ~it.ok THEN it ELSE FloatAll(it.val)

\* tuple(float(value) for value in item[key])
FloatField(item, key) ==
  LET got == PyGetItem(item, key) IN IF ~got.ok THEN got ELSE FloatTuple(got.val)

\* The body of the loop of _load_json_points for one item.
JsonPoint(item, idx) ==
  LET position == FloatField(item, "position")
      normal == FloatField(item, "normal")
      caught == {"KeyError", "TypeError", "ValueError"}
  IN  IF ~position.ok
      THEN IF position.exc \in caught
           THEN CADParseError("Invalid point definition at index", idx)
           ELSE position
      ELSE IF ~normal.ok
      THEN IF normal.exc \in caught
           THEN CADParseError("Invalid point definition at index", idx)
           ELSE normal
      ELSE IF Len(position.val) # 3 \/ Len(normal.val) # 3
      THEN CADParseError("Point must include 3D position and normal at index", idx)
      ELSE Return(PointData(position.val, normal.val))

RECURSIVE JsonPoints(_, _)
JsonPoints(items, idx) ==
  IF idx >= Len(items) THEN Return(<<>>)
  ELSE LET p == JsonPoint(items[idx + 1], idx)
       IN  IF ~p.ok THEN p
           ELSE LET rest == JsonPoints(items, idx + 1)
                IN  IF ~rest.ok THEN rest ELSE Return(<<p.val>> \o rest.val)

\* list(_load_json_points(data)), given what json.loads(data) returned.
_load_json_points(payload) ==
  LET points == IF payload.t = "dict" THEN PyGetItem(payload, "points")
                ELSE Return(payload)
  IN  IF ~points.ok THEN points
      ELSE LET it == PyIter(points.val)
           IN  IF ~it.ok THEN it ELSE JsonPoints(it.val, 0)

(***************************************************************************)
(* Text.  A text is a sequence of lines, a line a sequence of words (its   *)
(* whitespace-separated pieces), a word a sequence of atoms joined by      *)
(* "," or ";".  An atom is a numeral (t = "num", v its value) or any other *)
(* run of characters (t = "word", w its spelling).                         *)
(***************************************************************************)

NumAtom(x) == [t |-> "num", v |-> x, w |-> ""]
WordAtom(w) == [t |-> "word", v |-> Zero, w |-> w]

\* A word made of one atom.
W(a) == <<a>>
N(i) == W(NumAtom(Num(i)))
K(w) == W(WordAtom(w))

\* str.lower() on a spelling.
Lower(w) ==
  CASE w = "FACET" -> "facet"
    [] w = "Normal" -> "normal"
    [] w = "VERTEX" -> "vertex"
    [] w = "EndFacet" -> "endfacet"
    [] OTHER -> w

\* The lower-cased spelling of a whitespace-separated token, "" standing
\* for a token that is no single bare word.
Token(word) ==
  IF Len(word) = 1 /\ word[1].t = "word" THEN Lower(word[1].w) ELSE ""

\* float(token) on a whitespace-separated token of a text.
AtomFloat(a) ==
  IF a.t = "num" THEN Return(a.v)
  ELSE Raise("ValueError", "could not convert string to float", 0)

WordFloat(word) ==
  IF Len(word) = 1 THEN AtomFloat(word[1])
  ELSE Raise("ValueError", "could not convert string to float", 0)

RECURSIVE Floats(_)
Floats(ws) ==
  IF ws = <<>> THEN Return(<<>>)
  ELSE LET f == WordFloat(Head(ws))
       IN  IF ~f.ok THEN f
           ELSE LET rest == Floats(Tail(ws))
                IN  IF ~rest.ok THEN rest ELSE Return(<<f.val>> \o rest.val)

\* line.strip() is empty.
IsBlank(line) == line = <<>>

\* text.strip(): the blank lines before the first and after the last
\* non-blank line go (the blanks inside a line are not part of its words).
RECURSIVE StripHead(_)
StripHead(lines) ==
  IF lines # <<>> /\ IsBlank(Head(lines)) THEN StripHead(Tail(lines)) ELSE lines

RECURSIVE StripTail(_)
StripTail(lines) ==
  IF lines # <<>> /\ IsBlank(lines[Len(lines)])
  THEN StripTail(SubSeq(lines, 1, Len(lines) - 1))
  ELSE lines

Strip(lines) == StripTail(StripHead(lines))

\* stripped.replace(";", " ").replace(",", " ").split()
RECURSIVE SplitSeparators(_)
SplitSeparators(line) ==
  IF line = <<>> THEN <<>>
  ELSE [i \in 1..Len(Head(line)) |-> W(Head(line)[i])] \o SplitSeparators(Tail(line))

\* stripped.startswith("#")
StartsWithHash(line) ==
  line # <<>> /\ line[1][1].t = "word" /\ line[1][1].w \in {"#", "#note"}

\* One line of _load_csv_points: no point (skipped), a point, or an error.
CsvLine(line, line_number) ==
  LET raw_values == SplitSeparators(line)
      position == Floats(SubSeq(raw_values, 1, 3))
      normal == Floats(SubSeq(raw_values, 4, 6))
  IN  IF IsBlank(line) \/ StartsWithHash(line) THEN Return(<<>>)
      ELSE IF Len(raw_values) # 6
      THEN CADParseError("Each line must contain 6 numeric values", line_number)
      ELSE IF ~position.ok \/ ~normal.ok
      THEN CADParseError("Non-numeric value on line", line_number)
      ELSE Return(<<PointData(position.val, normal.val)>>)

RECURSIVE CsvLines(_, _)
CsvLines(lines, line_number) ==
  IF line_number > Len(lines) THEN Return(<<>>)
  ELSE LET p == CsvLine(lines[line_number], line_number)
       IN  IF ~p.ok THEN p
           ELSE LET rest == CsvLines(lines, line_number + 1)
                IN  IF ~rest.ok THEN rest ELSE Return(p.val \o rest.val)

_load_csv_points(lines) == CsvLines(lines, 1)

(***************************************************************************)
(* _load_stl_points_text: the loop over the lines, with its two locals     *)
(* points and current_normal (<<>> standing for None).                     *)
(***************************************************************************)

None == <<>>

StlState(points, current_normal, error) ==
  [points |-> points, current_normal |-> current_normal, error |-> error]

NoError == Return(<<>>)

\* A decoder whose endfacet line leaves the pending normal in place.
StlLineKeepingNormal(st, line, line_number) ==
  LET tokens == [i \in 1..Len(line) |-> Token(line[i])]
      normal_values == Floats(SubSeq(line, 3, 5))
      position == Floats(SubSeq(line, 2, 4))
      fail(msg) == [st EXCEPT !.error = CADParseError(msg, line_number)]
  IN  IF IsBlank(line) THEN st
      ELSE IF Len(tokens) >= 2 /\ tokens[1] = "facet" /\ tokens[2] = "normal"
      THEN IF Len(line) # 5
           THEN fail("Facet normal must include three numeric components")
           ELSE IF ~normal_values.ok
           THEN fail("Invalid normal definition on line")
           ELSE [st EXCEPT !.current_normal = normal_values.val]
      ELSE IF tokens[1] = "vertex"
      THEN IF st.current_normal = None
           THEN fail("Encountered vertex before a facet normal definition")
           ELSE IF Len(line) # 4
           THEN fail("Vertex definition must include three numeric coordinates")
           ELSE IF ~position.ok
           THEN fail("Invalid vertex definition on line")
           ELSE [st EXCEPT !.points = Append(@, PointData(position.val, st.current_normal))]
      ELSE st

\* The body of the loop for one line.
StlLine(st, line, line_number) ==
  LET tokens == [i \in 1..Len(line) |-> Token(line[i])]
      normal_values == Floats(SubSeq(line, 3, 5))
      position == Floats(SubSeq(line, 2, 4))
      fail(msg) == [st EXCEPT !.error = CADParseError(msg, line_number)]
  IN  IF IsBlank(line) THEN st
      ELSE IF Len(tokens) >= 2 /\ tokens[1] = "facet" /\ tokens[2] = "normal"
      THEN IF Len(line) # 5
           THEN fail("Facet normal must include three numeric components")
           ELSE IF ~normal_values.ok
           THEN fail("Invalid normal definition on line")
           ELSE [st EXCEPT !.current_normal = normal_values.val]
      ELSE IF tokens[1] = "vertex"
      THEN IF st.current_normal = None
           THEN fail("Encountered vertex before a facet normal definition")
           ELSE IF Len(line) # 4
           THEN fail("Vertex definition must include three numeric coordinates")
           ELSE IF ~position.ok
           THEN fail("Invalid vertex definition on line")
           ELSE [st EXCEPT !.points = Append(@, PointData(position.val, st.current_normal))]
      ELSE IF tokens[1] = "endfacet"
      THEN [st EXCEPT !.current_normal = None]
      ELSE st

RECURSIVE StlLines(_, _, _)
StlLines(st, lines, line_number) ==
  IF line_number > Len(lines) \/ ~st.error.ok THEN st
  ELSE StlLines(StlLine(st, lines[line_number], line_number), lines, line_number + 1)

_load_stl_points_text(lines) ==
  LET st == StlLines(StlState(<<>>, None, NoError), lines, 1)
  IN  IF ~st.error.ok THEN st.error
      ELSE IF st.points = <<>>
      THEN CADParseError("No vertices were found in the provided STL file", 0)
      ELSE Return(st.points)

(***************************************************************************)
(* Bytes: struct.unpack_from, bytes.decode("utf-8") and the text a decoded *)
(* buffer holds.                                                           *)
(***************************************************************************)

RECURSIVE Pow2(_)
Pow2(k) == IF k <= 0 THEN 1 ELSE 2 * Pow2(k - 1)

RECURSIVE Pow5(_)
Pow5(k) == IF k <= 0 THEN 1 ELSE 5 * Pow5(k - 1)

\* struct.unpack_from("<I", data, at - 1)
U32(data, at) ==
  data[at] + 256 * data[at + 1] + 65536 * data[at + 2] + 16777216 * data[at + 3]

\* a * 2^k as a decimal.
RECURSIVE Scale2(_, _)
Scale2(a, k) ==
  IF a % 2 = 0 /\ a # 0 THEN Scale2(a \div 2, k + 1)
  ELSE IF k >= 0 THEN Num(a * Pow2(k))
  ELSE Norm(a * Pow5(-k), k)

\* struct.unpack_from("<f", data, at - 1): an IEEE 754 single (zero or a
\* normal number; the model's buffers hold no subnormal, inf or nan).
F32(data, at) ==
  LET sign == IF data[at + 3] >= 128 THEN -1 ELSE 1
      exponent == (data[at + 3] % 128) * 2 + data[at + 2] \div 128
      mantissa == (data[at + 2] % 128) * 65536 + data[at + 1] * 256 + data[at]
      x == Scale2(8388608 + mantissa, exponent - 150)
  IN  IF exponent = 0 /\ mantissa = 0 THEN Zero ELSE [x EXCEPT !.m = sign * @]

\* struct.unpack_from("<fff", data, at - 1)
F32x3(data, at) == <<F32(data, at), F32(data, at + 4), F32(data, at + 8)>>

IsContinuation(b) == b >= 128 /\ b <= 191

\* The continuation bytes the lead byte at i needs, -1 for a byte that
\* starts no character.
Following(b) ==
  IF b < 128 THEN 0
  ELSE IF b >= 194 /\ b <= 223 THEN 1
  ELSE IF b >= 224 /\ b <= 239 THEN 2
  ELSE IF b >= 240 /\ b <= 244 THEN 3
  ELSE -1

\* The byte after the lead byte b is in the range b allows.
SecondInRange(b, second) ==
  /\ b = 224 => second >= 160
  /\ b = 237 => second <= 159
  /\ b = 240 => second >= 144
  /\ b = 244 => second <= 143

\* binary_data.decode("utf-8") does not raise UnicodeDecodeError: every
\* byte that is no continuation byte starts a character and is followed by
\* exactly the continuation bytes it needs.
IsUtf8(data) ==
  /\ data # <<>> => ~IsContinuation(data[1])
  /\ \A i \in 1..Len(data) :
       ~IsContinuation(data[i]) =>
         LET n == Following(data[i])
         IN  /\ n >= 0
             /\ i + n <= Len(data)
             /\ \A j \in 1..n : IsContinuation(data[i + j])
             /\ n >= 1 => SecondInRange(data[i], data[i + 1])
             /\ i + n < Len(data) => ~IsContinuation(data[i + n + 1])

\* The characters str.splitlines() breaks at, and those str.split() and
\* str.strip() take for blanks (a byte below 128 is its own character).
IsLineBreak(b) == b \in {10, 11, 12, 13, 28, 29, 30}
IsSpace(b) == b \in {9, 10, 11, 12, 13, 28, 29, 30, 31, 32}
IsDigit(b) == b >= 48 /\ b <= 57

\* The word a run of non-blank characters makes: a numeral when all are
\* digits, otherwise a spelling that is no keyword of any format.
ByteWord(run) ==
  IF \A i \in 1..Len(run) : IsDigit(run[i])
  THEN W(NumAtom(Num(DigitsValue([i \in 1..Len(run) |-> run[i] - 48]))))
  ELSE K("binary")

\* The n-th smallest member of a set of positions.
Nth(S, n) == CHOOSE p \in S : Cardinality({q \in S : q <= p}) = n

\* The words of the characters data[lo..hi], which hold no line break.
ByteLine(data, lo, hi) ==
  LET starts == {i \in lo..hi : ~IsSpace(data[i]) /\ (i = lo \/ IsSpace(data[i - 1]))}
      end(i) == CHOOSE j \in i..hi :
                  /\ \A k \in i..j : ~IsSpace(data[k])
                  /\ j = hi \/ IsSpace(data[j + 1])
  IN  [n \in 1..Cardinality(starts) |->
         ByteWord(SubSeq(data, Nth(starts, n), end(Nth(starts, n))))]

\* text_data.splitlines(), each line split into its words.
ByteLines(data) ==
  LET breaks == {i \in 1..Len(data) : IsLineBreak(data[i])}
      first(n) == IF n = 1 THEN 1 ELSE Nth(breaks, n - 1) + 1
      last(n) == IF n > Cardinality(breaks) THEN Len(data) ELSE Nth(breaks, n) - 1
  IN  [n \in 1..Cardinality(breaks) + 1 |-> ByteLine(data, first(n), last(n))]

(***************************************************************************)
(* An uploaded file, by what it holds: k = "json" (doc is the document     *)
(* json.loads returns), "text" (lines are its lines) or "bytes" (data are  *)
(* its bytes); the other fields are fillers.                               *)
(***************************************************************************)

NoFile == [k |-> "none", doc |-> JNull, lines |-> <<>>, data |-> <<>>]
JsonFile(doc) == [NoFile EXCEPT !.k = "json", !.doc = doc]
TextFile(lines) == [NoFile EXCEPT !.k = "text", !.lines = lines]
BytesFile(data) == [NoFile EXCEPT !.k = "bytes", !.data = data]

\* raw_data is empty.
IsEmptyFile(file) == file.k # "json" /\ file.lines = <<>> /\ file.data = <<>>

\* binary_data.decode("utf-8") succeeds.
Decodes(file) == file.k = "bytes" => IsUtf8(file.data)

\* The lines of text_data.  A JSON document's own text is one line holding
\* brackets, quotes and commas: no keyword or numeral of another format.
TextOf(file) ==
  CASE file.k = "json" -> <<<<K("{json}")>>>>
    [] file.k = "text" -> file.lines
    [] OTHER -> ByteLines(file.data)

\* json.loads(stripped): the document, or JSONDecodeError.  A text of words
\* is JSON only when it is a single numeral.
JsonLoads(file, stripped) ==
  IF file.k = "json" THEN Return(file.doc)
  ELSE IF /\ Len(stripped) = 1 /\ Len(stripped[1]) = 1 /\ Len(stripped[1][1]) = 1
          /\ stripped[1][1][1].t = "num"
  THEN Return(JNum(stripped[1][1][1].v))
  ELSE Raise("JSONDecodeError", "Expecting value", 0)

RECURSIVE BinaryPoints(_, _, _)
BinaryPoints(data, triangle, triangle_count) ==
  IF triangle >= triangle_count THEN <<>>
  ELSE LET offset == 84 + 50 * triangle + 1
           normal == F32x3(data, offset)
       IN  [i \in 1..3 |-> PointData(F32x3(data, offset + 12 * i), normal)]
           \o BinaryPoints(data, triangle + 1, triangle_count)

\* len(data) < 84 + triangle_count * 50, computed without the product (a
\* count of 2^32 - 1 is a legal field value).
Truncated(data, triangle_count) == (Len(data) - 84) \div 50 < triangle_count

_load_stl_points_binary(data) ==
  IF Len(data) < 84
  THEN CADParseError("Binary STL file is too small to contain any geometry", 0)
  ELSE LET triangle_count == U32(data, 81)
           points == BinaryPoints(data, 0, triangle_count)
       IN  IF Truncated(data, triangle_count)
           THEN CADParseError("Binary STL file is truncated and cannot be parsed", 0)
           ELSE IF points = <<>>
           THEN CADParseError("Binary STL file contained no vertices", 0)
           ELSE Return(points)

(***************************************************************************)
(* parse_cad_points: the autodetection chain.  The result is the outcome   *)
(* of the call and the decoders it tried, in order.                        *)
(***************************************************************************)

Parse(out, tried) == [out |-> out, tried |-> tried]

Unsupported == CADParseError("Unsupported CAD file format. Provide JSON, CSV, or STL data.", 0)

\* The try blocks of the text path, from the ASCII STL decoder on.
TextChain(stripped, tried) ==
  LET stl == _load_stl_points_text(stripped)
      csv == _load_csv_points(stripped)
  IN  IF stl.ok \/ stl.exc # "CADParseError"
      THEN Parse(stl, tried \o <<"stl_text">>)
      ELSE IF csv.ok \/ csv.exc # "CADParseError"
      THEN Parse(csv, tried \o <<"stl_text", "csv">>)
      ELSE Parse(Unsupported, tried \o <<"stl_text", "csv">>)

\* A chain that swallows the JSON decoder's CADParseError as it swallows a
\* syntax error.
JsonChainSwallowing(file, stripped) ==
  LET payload == JsonLoads(file, stripped)
      points == _load_json_points(payload.val)
  IN  IF payload.ok
      THEN IF points.exc = "CADParseError" THEN TextChain(stripped, <<"json">>)
           ELSE Parse(points, <<"json">>)
      ELSE IF payload.exc = "JSONDecodeError" THEN TextChain(stripped, <<"json">>)
      ELSE Parse(payload, <<"json">>)

\* The first try block of the text path: only json.JSONDecodeError passes.
JsonChain(file, stripped) ==
  LET payload == JsonLoads(file, stripped)
  IN  IF payload.ok THEN Parse(_load_json_points(payload.val), <<"json">>)
      ELSE IF payload.exc = "JSONDecodeError" THEN TextChain(stripped, <<"json">>)
      ELSE Parse(payload, <<"json">>)

\* The binary fall-back.
BinaryChain(data) ==
  LET stl == _load_stl_points_binary(data)
  IN  IF stl.ok \/ stl.exc # "CADParseError" THEN Parse(stl, <<"stl_binary">>)
      ELSE Parse(Unsupported, <<"stl_binary">>)

parse_cad_points(file) ==
  IF IsEmptyFile(file) THEN Parse(CADParseError("Uploaded file is empty.", 0), <<>>)
  ELSE IF Decodes(file)
  THEN LET stripped == Strip(TextOf(file))
       IN  IF stripped = <<>>
           THEN Parse(CADParseError("Uploaded file is empty.", 0), <<>>)
           ELSE JsonChain(file, stripped)
  ELSE BinaryChain(file.data)

(***************************************************************************)
(* offset_points                                                           *)
(***************************************************************************)

\* The body of the loop for one point.
OffsetPoint(point, offset) ==
  LET nx == point.normal[1]
      ny == point.normal[2]
      nz == point.normal[3]
      magnitude == Sqrt(Add(Add(Square(nx), Square(ny)), Square(nz)))
      unit_normal == <<Div(nx, magnitude), Div(ny, magnitude), Div(nz, magnitude)>>
  IN  IF PowOverflows(nx) \/ PowOverflows(ny) \/ PowOverflows(nz)
      THEN Raise("OverflowError", "Numerical result out of range", 0)
      ELSE IF IsZero(magnitude)
      THEN CADParseError("Normal vector cannot be zero.", 0)
      ELSE Return([i \in 1..3 |-> Add(point.position[i], Mul(unit_normal[i], offset))])

RECURSIVE offset_points(_, _)
offset_points(points, offset) ==
  IF points = <<>> THEN Return(<<>>)
  ELSE LET p == OffsetPoint(Head(points), offset)
       IN  IF ~p.ok THEN p
           ELSE LET rest == offset_points(Tail(points), offset)
                IN  IF ~rest.ok THEN rest ELSE Return(<<p.val>> \o rest.val)

(***************************************************************************)
(* _generate_ascii_stl                                                     *)
(***************************************************************************)

\* round-half-even of n / q for n >= 0.
RoundDiv(n, q) ==
  LET d == n \div q
      r == n % q
  IN  IF 2 * r > q \/ (2 * r = q /\ d % 2 = 1) THEN d + 1 ELSE d

\* A formatting that loses the sign.
FormatFloatUnsigned(value) ==
  LET drop == -FormatDecimals - value.e
  IN  IF drop <= 0 THEN NumAtom(Norm(Abs(value.m), value.e))
      ELSE IF drop > Digits(value.m) THEN NumAtom(Zero)
      ELSE NumAtom(Norm(RoundDiv(Abs(value.m), Pow10(drop)), -FormatDecimals))

\* f"{value:.6f}": the numeral with FormatDecimals decimals nearest to value.
format_float(value) ==
  LET drop == -FormatDecimals - value.e
      sign == IF value.m < 0 THEN -1 ELSE 1
  IN  IF drop <= 0 THEN NumAtom(value)
      ELSE IF drop > Digits(value.m) THEN NumAtom(Zero)
      ELSE NumAtom(Norm(sign * RoundDiv(Abs(value.m), Pow10(drop)), -FormatDecimals))

\* " ".join(format_float(component) for component in vector)
FormatVector(vector) == [i \in 1..Len(vector) |-> W(format_float(vector[i]))]

\* The lines of one facet.
FacetLines(normal, vertices) ==
  <<<<K("facet"), K("normal")>> \o FormatVector(normal), <<K("outer"), K("loop")>>>>
  \o [i \in 1..Len(vertices) |-> <<K("vertex")>> \o FormatVector(vertices[i])]
  \o <<<<K("endloop")>>, <<K("endfacet")>>>>

RECURSIVE Facets(_, _, _)
Facets(points, vertex_positions, index) ==
  IF index >= Len(points) THEN <<>>
  ELSE FacetLines(points[index + 1].normal, SubSeq(vertex_positions, index + 1, index + 3))
       \o Facets(points, vertex_positions, index + 3)

\* The optional argument positions: left out (None), or a list.
NotGiven == [given |-> FALSE, v |-> <<>>]
Given(positions) == [given |-> TRUE, v |-> positions]

\* An emitter that wants whole pairs of triangles.
GenerateAsciiStlPairs(points, positions, solid_name) ==
  LET vertex_positions ==
        IF ~positions.given THEN [i \in 1..Len(points) |-> points[i].position]
        ELSE positions.v
  IN  IF Len(vertex_positions) # Len(points) THEN None
      ELSE IF Len(points) % 6 # 0 THEN None
      ELSE <<<<K("solid"), K(solid_name)>>>>
           \o Facets(points, vertex_positions, 0)
           \o <<<<K("endsolid"), K(solid_name)>>>>

\* _generate_ascii_stl(points, positions, solid_name=...): the lines of the
\* text, or None.
_generate_ascii_stl(points, positions, solid_name) ==
  LET vertex_positions ==
        IF ~positions.given THEN [i \in 1..Len(points) |-> points[i].position]
        ELSE positions.v
  IN  IF Len(vertex_positions) # Len(points) THEN None
      ELSE IF Len(points) % 3 # 0 THEN None
      ELSE <<<<K("solid"), K(solid_name)>>>>
           \o Facets(points, vertex_positions, 0)
           \o <<<<K("endsolid"), K(solid_name)>>>>

(***************************************************************************)
(* offset_view, one action per step of the handler.                        *)
(***************************************************************************)

\* request.POST.get("offset", ""): the text of the field.
NoOffset == WordAtom("")

NotCalled == Raise("", "not called", 0)

NoResponse == [kind |-> "none", status |-> 0, body |-> <<>>]

\* render(request, "cad/offset_form.html")
HtmlResponse == [kind |-> "html", status |-> 200, body |-> <<>>]

\* JsonResponse(payload, status=status)
JsonResponse(payload, status) == [kind |-> "json", status |-> status, body |-> payload]

\* An exception offset_view does not catch leaves the view.
Unhandled(outcome) == [kind |-> "exception", status |-> 500, body |-> [exc |-> outcome.exc]]

ErrorResponse(msg, at) == JsonResponse([error |-> <<msg, at>>], 400)

\* if request.method == "GET": return render(...)
Get ==
  /\ pc = "start"
  /\ request.method = "GET"
  /\ response' = HtmlResponse
  /\ pc' = "done"
  /\ UNCHANGED <<request, calls, offset_value, parsed, offsets, emitted>>

\* uploaded_file = request.FILES.get("file")
GetFile ==
  /\ pc = "start"
  /\ request.method = "POST"
  /\ calls' = Append(calls, "FILES.get")
  /\ IF request.file = NoFile
     THEN /\ response' = ErrorResponse("Missing CAD file in 'file' field.", 0)
          /\ pc' = "done"
     ELSE /\ response' = response
          /\ pc' = "have_file"
  /\ UNCHANGED <<request, offset_value, parsed, offsets, emitted>>

\* A handler that takes an offset it cannot read as 0 and goes on.
GetOffsetDefaulting ==
  /\ pc = "have_file"
  /\ calls' = Append(calls, "POST.get")
  /\ LET value == AtomFloat(request.offset)
     IN  offset_value' = IF value.ok THEN value.val ELSE Zero
  /\ response' = response
  /\ pc' = "have_offset"
  /\ UNCHANGED <<request, parsed, offsets, emitted>>

\* offset_value = float(request.POST.get("offset", ""))
GetOffset ==
  /\ pc = "have_file"
  /\ calls' = Append(calls, "POST.get")
  /\ LET value == AtomFloat(request.offset)
     IN  IF value.ok
         THEN /\ offset_value' = value.val
              /\ response' = response
              /\ pc' = "have_offset"
         ELSE /\ offset_value' = offset_value
              /\ response' = ErrorResponse("Offset must be a numeric value.", 0)
              /\ pc' = "done"
  /\ UNCHANGED <<request, parsed, offsets, emitted>>

\* What the except clause of the try block makes of a raised exception.
Caught(outcome) ==
  IF outcome.exc = "CADParseError" THEN ErrorResponse(outcome.msg, outcome.at)
  ELSE Unhandled(outcome)

\* points = parse_cad_points(uploaded_file)
ParseCadPoints ==
  /\ pc = "have_offset"
  /\ LET p == parse_cad_points(request.file)
     IN  /\ calls' = calls \o <<"parse_cad_points">> \o p.tried
         /\ parsed' = p.out
         /\ IF p.out.ok
            THEN /\ response' = response
                 /\ pc' = "have_points"
            ELSE /\ response' = Caught(p.out)
                 /\ pc' = "done"
  /\ UNCHANGED <<request, offset_value, offsets, emitted>>

\* offset_positions = offset_points(points, offset_value)
OffsetPoints ==
  /\ pc = "have_points"
  /\ calls' = Append(calls, "offset_points")
  /\ LET o == offset_points(parsed.val, offset_value)
     IN  /\ offsets' = o
         /\ IF o.ok
            THEN /\ response' = response
                 /\ pc' = "have_offsets"
            ELSE /\ response' = Caught(o)
                 /\ pc' = "done"
  /\ UNCHANGED <<request, offset_value, parsed, emitted>>

\* response_payload, as lines 282 to 295 fill it.
ResponsePayload(points, offset_positions) ==
  LET base == [offset_points |-> offset_positions,
               source_points |-> [i \in 1..Len(points) |-> points[i].position]]
      source_stl == _generate_ascii_stl(points, NotGiven, "source_mesh")
      offset_stl == _generate_ascii_stl(points, Given(offset_positions), "offset_mesh")
  IN  IF source_stl = None THEN base
      ELSE IF offset_stl = None THEN base @@ [source_stl |-> source_stl]
      ELSE base @@ [source_stl |-> source_stl, offset_stl |-> offset_stl]

\* The rest of offset_view: the payload and return JsonResponse(response_payload).
Respond ==
  /\ pc = "have_offsets"
  /\ calls' = Append(calls, "_generate_ascii_stl")
  /\ response' = JsonResponse(ResponsePayload(parsed.val, offsets.val), 200)
  /\ pc' = "done"
  /\ UNCHANGED <<request, offset_value, parsed, offsets, emitted>>

Next == Get \/ GetFile \/ GetOffset \/ ParseCadPoints \/ OffsetPoints \/ Respond

(***************************************************************************)
(* The requests checked.                                                   *)
(***************************************************************************)

\* Most points of a generated JSON document, lines of a generated text,
\* triangles of a generated binary STL.
MaxJsonPoints == 3
MaxLines == 3
MaxTriangles == 2

\* The sequences over S of length 0..n.
RECURSIVE SeqsUpTo(_, _)
SeqsUpTo(S, n) ==
  IF n = 0 THEN {<<>>}
  ELSE LET shorter == SeqsUpTo(S, n - 1)
       IN  shorter \cup {Append(q, x) : q \in {r \in shorter : Len(r) = n - 1}, x \in S}

Huge == Norm(1, 200)
Tiny == Norm(1, -200)

JVec(a, b, c) == JList(<<JNum(a), JNum(b), JNum(c)>>)
JPoint(position, normal) == JDict([position |-> position, normal |-> normal])

JsonItems ==
  { JPoint(JVec(Zero, Zero, Zero), JVec(Zero, Zero, One)),
    JPoint(JVec(One, One, One), JVec(Num(-2), Zero, Zero)),
    JPoint(JVec(One, Zero, Norm(5, -7)), JVec(Zero, Zero, Zero)),
    JPoint(JVec(Zero, Zero, Zero), JVec(Huge, Zero, Zero)),
    JPoint(JStr(<<1, 2, 3>>), JList(<<JBool(FALSE), JStr(<<1>>), JNum(Tiny)>>)),
    JDict([position |-> JVec(Zero, Zero, Zero)]),
    JPoint(JList(<<JNum(Zero), JNum(Zero)>>), JVec(Zero, Zero, One)),
    JPoint(JList(<<JNum(Zero), JNull, JStr(<<NotDigit>>)>>), JVec(Zero, Zero, One)) }

JsonDocs ==
  LET lists == {JList(items) : items \in SeqsUpTo(JsonItems, MaxJsonPoints)}
  IN  lists
      \cup {JDict([points |-> l]) : l \in lists}
      \cup { JNull, JStr(<<>>), JStr(<<NotDigit, 1>>), JDict([mesh |-> JList(<<>>)]),
             JDict([points |-> JNum(One)]), JDict([points |-> JDict([a |-> JNull])]),
             JList(<<JNum(One)>>),
             JList(<<JPoint(JList(<<JNum(Zero), JNum(Zero), JBigInt>>), JVec(Zero, Zero, One))>>) }

TextLineSet ==
  { <<>>,
    <<K("#"), K("note")>>,
    <<N(0), N(0), N(0), N(0), N(0), W(NumAtom(Norm(25, -1)))>>,
    <<<<NumAtom(One), NumAtom(One), NumAtom(One), NumAtom(One)>>, N(0), N(0)>>,
    <<N(5)>>,
    <<K("FACET"), K("Normal"), N(0), N(0), N(1)>>,
    <<K("vertex"), N(1), N(0), N(0)>>,
    <<K("endfacet")>> }

\* The ASCII STL of tests.py, with the given facet normal.
TriangleText(normal) ==
  << <<K("solid"), K("ascii")>>,
     <<K("facet"), K("normal"), W(NumAtom(normal[1])), W(NumAtom(normal[2])), W(NumAtom(normal[3]))>>,
     <<K("outer"), K("loop")>>,
     <<K("vertex"), N(0), N(0), N(0)>>,
     <<K("vertex"), N(1), N(0), N(0)>>,
     <<K("vertex"), N(0), N(1), N(0)>>,
     <<K("endloop")>>,
     <<K("endfacet")>>,
     <<K("endsolid")>> >>

Texts ==
  SeqsUpTo(TextLineSet, MaxLines)
  \cup {TriangleText(n) : n \in {<<Zero, Zero, One>>, <<Zero, Zero, Zero>>, <<Zero, Tiny, Zero>>}}

\* struct.pack("<f", x) for x in -1, 0, 1, 2.
Pack32(x) ==
  CASE x = 0 -> <<0, 0, 0, 0>>
    [] x = 1 -> <<0, 0, 128, 63>>
    [] x = 2 -> <<0, 0, 0, 64>>
    [] OTHER -> <<0, 0, 128, 191>>

PackVector(v) == Pack32(v[1]) \o Pack32(v[2]) \o Pack32(v[3])

\* One 50-byte record: the normal, a triangle of side `side`, the attribute.
PackTriangle(normal, side) ==
  PackVector(normal) \o PackVector(<<0, 0, 0>>) \o PackVector(<<side, 0, 0>>)
  \o PackVector(<<0, side, 0>>) \o <<0, 0>>

RECURSIVE PackTriangles(_)
PackTriangles(triangles) ==
  IF triangles = <<>> THEN <<>>
  ELSE PackTriangle(Head(triangles)[1], Head(triangles)[2]) \o PackTriangles(Tail(triangles))

\* A binary STL: a header of blanks, the count field and the records.
BinaryStl(count, triangles) ==
  [i \in 1..80 |-> 32] \o <<count, 0, 0, 0>> \o PackTriangles(triangles)

BinaryTriangles ==
  {<<0, 0, 1>>, <<2, 0, 0>>, <<0, -1, 0>>, <<0, 0, 0>>} \X {1, 2}

Binaries ==
  LET whole == { BinaryStl(Len(ts), ts) : ts \in SeqsUpTo(BinaryTriangles, MaxTriangles) }
  IN  whole
      \cup { b \o <<0>> : b \in whole }
      \cup { SubSeq(b, 1, Len(b) - 1) : b \in whole }
      \cup { BinaryStl(Len(ts) + 1, ts) : ts \in SeqsUpTo(BinaryTriangles, 1) }
      \cup { <<>>, <<32, 32>>, <<32, 10, 53, 32>>, <<123, 128>> }

Files ==
  {JsonFile(d) : d \in JsonDocs} \cup {TextFile(t) : t \in Texts}
  \cup {BytesFile(b) : b \in Binaries}

Offsets == {NumAtom(Zero), NumAtom(Norm(25, -1)), WordAtom("abc"), NoOffset}

Requests ==
  [method : {"POST"}, file : Files \cup {NoFile}, offset : Offsets]
  \cup [method : {"GET"}, file : {NoFile}, offset : {NoOffset}]

Init ==
  /\ pc = "start"
  /\ request \in Requests
  /\ calls = <<>>
  /\ offset_value = Zero
  /\ parsed = NotCalled
  /\ offsets = NotCalled
  /\ response = NoResponse
  /\ emitted = None

Spec == Init /\ [][Next]_vars

(***************************************************************************)
(* The ASCII STL decoder on its own: _load_stl_points_text on a text.      *)
(***************************************************************************)

\* Most lines of a text given to the decoder on its own.
MaxStlLines == 4

StlLineSet ==
  { <<K("facet"), K("normal"), N(0), N(0), N(1)>>,
    <<K("FACET"), K("Normal"), N(1), N(0), N(0)>>,
    <<K("facet"), K("normal"), N(0), N(1)>>,
    <<K("vertex"), N(1), N(0), N(0)>>,
    <<K("VERTEX"), N(0), W(NumAtom(Norm(25, -1))), N(0)>>,
    <<K("vertex"), N(1), K("x"), N(0)>>,
    <<K("EndFacet")>>,
    <<K("outer"), K("loop")>> }

StlTexts == SeqsUpTo(StlLineSet, MaxStlLines)

InitStl ==
  /\ pc = "start"
  /\ request \in [method : {"_load_stl_points_text"}, lines : StlTexts]
  /\ calls = <<>>
  /\ offset_value = Zero
  /\ parsed = NotCalled
  /\ offsets = NotCalled
  /\ response = NoResponse
  /\ emitted = None

LoadStlPointsText ==
  /\ pc = "start"
  /\ request.method = "_load_stl_points_text"
  /\ parsed' = _load_stl_points_text(request.lines)
  /\ pc' = "done"
  /\ UNCHANGED <<request, calls, offset_value, offsets, response, emitted>>

SpecStl == InitStl /\ [][LoadStlPointsText]_vars

(***************************************************************************)
(* The emitter and the decoder back to back: _generate_ascii_stl on a      *)
(* point sequence, then _load_stl_points_text on the text it returned.     *)
(***************************************************************************)

\* Most points of a generated point sequence.
MaxEmitPoints == 3

EmitPoints ==
  { PointData(p, n) :
      p \in {<<Zero, Zero, Zero>>, <<One, Zero, Norm(-25, -1)>>, <<Zero, Norm(5, -7), One>>},
      n \in {<<Zero, Zero, One>>, <<Num(-1), Zero, Zero>>} }

\* Two facets.
EmitPairs ==
  LET facets == {<<p, q, q>> : p \in EmitPoints, q \in EmitPoints}
  IN  {a \o b : a \in facets, b \in facets}

InitEmit ==
  /\ pc = "start"
  /\ request \in [method : {"_generate_ascii_stl"},
                  points : SeqsUpTo(EmitPoints, MaxEmitPoints) \cup EmitPairs,
                  solid_name : {"source_mesh", "offset_mesh"}]
  /\ calls = <<>>
  /\ offset_value = Zero
  /\ parsed = NotCalled
  /\ offsets = NotCalled
  /\ response = NoResponse
  /\ emitted = None

GenerateAsciiStl ==
  /\ pc = "start"
  /\ request.method = "_generate_ascii_stl"
  /\ emitted' = _generate_ascii_stl(request.points, NotGiven, request.solid_name)
  /\ pc' = "emitted"
  /\ UNCHANGED <<request, calls, offset_value, parsed, offsets, response>>

ReloadStl ==
  /\ pc = "emitted"
  /\ emitted # None
  /\ parsed' = _load_stl_points_text(emitted)
  /\ pc' = "done"
  /\ UNCHANGED <<request, calls, offset_value, offsets, response, emitted>>

NextEmit == GenerateAsciiStl \/ ReloadStl

SpecEmit == InitEmit /\ [][NextEmit]_vars

(***************************************************************************)
(* Properties.                                                             *)
(***************************************************************************)

Done == pc = "done"

IsPost == request.method = "POST"

HasFile == IsPost /\ request.file # NoFile

NumericOffset == IsPost /\ request.offset.t = "num"

Keys == DOMAIN response.body

\* A failure result: one error message and nothing else.
IsErrorResult ==
  response.kind = "json" /\ response.status = 400 /\ Keys = {"error"}

\* A success result.
IsSuccessResult ==
  response.kind = "json" /\ response.status = 200 /\ "offset_points" \in Keys

Tried(decoder) == \E i \in 1..Len(calls) : calls[i] = decoder

\* ---- C1 ---------------------------------------------------------------

\* A component float() converts.
NumericComponent(c) ==
  \/ c.t \in {"float", "bool"}
  \/ c.t = "str" /\ c.chars # <<>> /\ \A i \in 1..Len(c.chars) : c.chars[i] # NotDigit

\* A component that is no number: null, a non-numeric string, an array or
\* an object.
NonNumericComponent(c) == c.t # "bigint" /\ ~NumericComponent(c)

HasField(item, key) == item.t = "dict" /\ key \in DOMAIN item.dict

\* A point object with both arrays, each of three numeric components.
WellFormedPoint(item) ==
  /\ HasField(item, "position") /\ HasField(item, "normal")
  /\ \A key \in {"position", "normal"} :
       LET a == item.dict[key]
       IN  a.t = "list" /\ Len(a.items) = 3 /\ \A i \in 1..3 : NumericComponent(a.items[i])

\* A point object that is structurally wrong: a key is missing, or an array
\* has a non-numeric component or not three components.
WrongPoint(item) ==
  /\ item.t = "dict"
  /\ \/ ~HasField(item, "position")
     \/ ~HasField(item, "normal")
     \/ \E key \in {"position", "normal"} :
          LET a == item.dict[key]
          IN  /\ a.t = "list"
              /\ \A i \in 1..Len(a.items) : a.items[i].t # "bigint"
              /\ \/ Len(a.items) # 3
                 \/ \E i \in 1..Len(a.items) : NonNumericComponent(a.items[i])

\* The point list of a document: the array itself or its "points" member.
PointList(doc) ==
  IF doc.t = "list" THEN doc.items
  ELSE IF HasField(doc, "points") /\ doc.dict["points"].t = "list"
  THEN doc.dict["points"].items
  ELSE <<>>

\* The uploaded buffer is a JSON document whose point list holds well-formed
\* points up to a structurally wrong one, at position `at` of the list.
WrongJsonAt(at) ==
  /\ HasFile /\ request.file.k = "json"
  /\ LET points == PointList(request.file.doc)
     IN  /\ at \in 1..Len(points)
         /\ WrongPoint(points[at])
         /\ \A i \in 1..(at - 1) : WellFormedPoint(points[i])

JsonDecoderErrors ==
  {"Invalid point definition at index", "Point must include 3D position and normal at index"}

C2_NonEmptyResult == parsed.ok => Len(parsed.val) >= 1

\* ---- C3 ---------------------------------------------------------------

\* C3: every POST that carries a file and a numeric offset ends in a
\* success result carrying offset_points or in a failure result carrying a
\* single error message, and in no other way.
C3_TwoOutcomes ==
  (Done /\ HasFile /\ NumericOffset) => (IsSuccessResult \/ IsErrorResult)

\* ---- C4 ---------------------------------------------------------------

\* C4: in every success result source_stl and offset_stl are both present
\* or both absent, present exactly when the number of decoded points is a
\* multiple of 3, and then named source_mesh and offset_mesh.
C4_StlBlobsTogether ==
  IsSuccessResult =>
    /\ "source_stl" \in Keys <=> "offset_stl" \in Keys
    /\ "source_stl" \in Keys <=> Len(parsed.val) % 3 = 0
    /\ "source_stl" \in Keys =>
         /\ response.body.source_stl[1] = <<K("solid"), K("source_mesh")>>
         /\ response.body.offset_stl[1] = <<K("solid"), K("offset_mesh")>>

\* A three-vertex ASCII STL upload has been answered with both blobs.
C4_Witness ==
  /\ Done /\ IsSuccessResult /\ request.file.k = "text"
  /\ Tried("stl_text") /\ ~Tried("csv")
  /\ Len(parsed.val) = 3
  /\ {"source_stl", "offset_stl"} \subseteq Keys

\* ---- C5 (under SpecEmit) -----------------------------------------------

\* A number the 6-decimal formatting represents exactly.
Representable(x) == x.e >= -FormatDecimals

RepresentablePoints(points) ==
  \A i \in 1..Len(points) : \A c \in 1..3 :
    Representable(points[i].position[c]) /\ Representable(points[i].normal[c])

\* The three points of every facet have the normal of the facet's first.
FacetsShareNormal(points) ==
  \A i \in 1..Len(points) : points[i].normal = points[3 * ((i - 1) \div 3) + 1].normal

\* C5, as amended: for every non-empty point sequence of representable
\* numbers in which the three points of each consecutive triple have the
\* same normal, the ASCII STL decoder returns, from the text
\* _generate_ascii_stl returned, the original sequence.
C5_RoundTripOfFacets ==
  ( /\ Done /\ request.method = "_generate_ascii_stl"
    /\ request.points # <<>>
    /\ RepresentablePoints(request.points)
    /\ FacetsShareNormal(request.points) )
  => parsed = Return(request.points)

\* Two facets of different normals, with a fractional coordinate, have made
\* the round trip.
C5_Witness ==
  /\ Done /\ request.method = "_generate_ascii_stl"
  /\ Len(request.points) = 6
  /\ RepresentablePoints(request.points) /\ FacetsShareNormal(request.points)
  /\ request.points[1].normal # request.points[4].normal
  /\ request.points[2].position[3] = Norm(-25, -1)
  /\ parsed.ok

\* C5, as stated: for every point sequence (of at least one point) of
\* representable numbers for which _generate_ascii_stl returns text, the
\* decoder returns the original sequence from that text.
C5_RoundTrip ==
  ( /\ Done /\ request.method = "_generate_ascii_stl"
    /\ request.points # <<>>
    /\ emitted # None
    /\ RepresentablePoints(request.points) )
  => parsed = Return(request.points)

\* ---- C6, C7, C8 -------------------------------------------------------

ZeroVector == <<Zero, Zero, Zero>>

\* A normal along one axis.
AxisAligned(normal) == Cardinality({c \in 1..3 : ~IsZero(normal[c])}) = 1

\* -1, 0 or 1: the component of the unit vector of an axis-aligned normal.
Sign(x) == IF x.m > 0 THEN One ELSE IF x.m < 0 THEN Neg(One) ELSE Zero

\* position + d * normal / |normal| for an axis-aligned normal.
Shifted(point, d) == [c \in 1..3 |-> Add(point.position[c], Mul(Sign(point.normal[c]), d))]

\* The uploaded buffer is a well-formed binary STL of T >= 1 triangles.
WellFormedBinaryStl(T) ==
  /\ HasFile /\ request.file.k = "bytes"
  /\ Len(request.file.data) >= 84 + 50 * T
  /\ T >= 1
  /\ U32(request.file.data, 81) = T

\* The points of its records, in record order.
RecordPoints(T) ==
  [i \in 1..(3 * T) |->
     LET at == 85 + 50 * ((i - 1) \div 3)
     IN  PointData(F32x3(request.file.data, at + 12 * (1 + ((i - 1) % 3))),
                   F32x3(request.file.data, at))]

\* C6: a well-formed binary STL whose normals are non-zero, submitted with
\* a numeric offset, is answered with the 3*T points of its records, each
\* offset along its record's normal, and with source_stl and offset_stl.
C6_BinaryStlAccepted ==
  \A T \in 1..(MaxTriangles + 1) :
    ( /\ Done /\ NumericOffset /\ WellFormedBinaryStl(T)
      /\ \A i \in 1..(3 * T) : AxisAligned(RecordPoints(T)[i].normal) )
    => /\ IsSuccessResult
       /\ response.body.offset_points
            = [i \in 1..(3 * T) |-> Shifted(RecordPoints(T)[i], offset_value)]
       /\ {"source_stl", "offset_stl"} \subseteq Keys

\* C7: for a point sequence whose normals are all non-zero (and along an
\* axis), offset_points returns one vector per point, in order, the i-th
\* being position_i + d * normal_i / |normal_i|.
C7_OffsetFormula ==
  ( /\ parsed.ok /\ offsets # NotCalled
    /\ \A i \in 1..Len(parsed.val) : AxisAligned(parsed.val[i].normal) )
  => offsets = Return([i \in 1..Len(parsed.val) |-> Shifted(parsed.val[i], offset_value)])

\* C8: if a decoded point has the normal (0, 0, 0), offset_points fails
\* with the zero-normal error and the request returns only an error.
C8_ZeroNormalRejected ==
  ( /\ parsed.ok /\ offsets # NotCalled
    /\ \E i \in 1..Len(parsed.val) : parsed.val[i].normal = ZeroVector )
  => /\ offsets = CADParseError("Normal vector cannot be zero.", 0)
     /\ Done /\ IsErrorResult

\* ---- C9 ---------------------------------------------------------------

\* C9: a POST without a file is answered with an error without the offset
\* being read or any offset computed; a POST whose offset is absent or not
\* numeric is answered with an error before parse_cad_points or
\* offset_points is called, whatever the file holds.
C9_ValidationOrder ==
  /\ (IsPost /\ request.file = NoFile) =>
       /\ ~Tried("POST.get") /\ ~Tried("parse_cad_points") /\ ~Tried("offset_points")
       /\ parsed = NotCalled /\ offsets = NotCalled
       /\ pc \in {"start", "done"}
       /\ Done => IsErrorResult
  /\ (IsPost /\ ~NumericOffset) =>
       /\ ~Tried("parse_cad_points") /\ ~Tried("offset_points")
       /\ parsed = NotCalled /\ offsets = NotCalled
       /\ pc \in {"start", "have_file", "done"}
       /\ Done => IsErrorResult

\* A well-formed JSON upload sent with the offset "abc" has been answered.
C9_Witness ==
  /\ Done /\ HasFile /\ request.offset = WordAtom("abc")
  /\ request.file.k = "json" /\ PointList(request.file.doc) # <<>>
  /\ \A i \in 1..Len(PointList(request.file.doc)) : WellFormedPoint(PointList(request.file.doc)[i])
  /\ calls = <<"FILES.get", "POST.get">>
  /\ IsErrorResult

\* ---- C10 (under SpecStl) ----------------------------------------------

IsFacetNormal(line) == Len(line) >= 2 /\ Token(line[1]) = "facet" /\ Token(line[2]) = "normal"
IsVertex(line) == ~IsFacetNormal(line) /\ line # <<>> /\ Token(line[1]) = "vertex"
IsEndFacet(line) == ~IsFacetNormal(line) /\ line # <<>> /\ Token(line[1]) = "endfacet"

IsNumeral(word) == Len(word) = 1 /\ word[1].t = "num"

\* A line the decoder accepts wherever a normal is pending.
CleanLine(line) ==
  /\ IsFacetNormal(line) => Len(line) = 5 /\ \A i \in 3..5 : IsNumeral(line[i])
  /\ IsVertex(line) => Len(line) = 4 /\ \A i \in 2..4 : IsNumeral(line[i])

\* The last facet normal or endfacet line before line j, 0 when none.
LastMark(lines, j) ==
  LET marks == {i \in 1..(j - 1) : IsFacetNormal(lines[i]) \/ IsEndFacet(lines[i])}
  IN  IF marks = {} THEN 0 ELSE CHOOSE i \in marks : \A k \in marks : k <= i

\* The state of the machine when it reads line j.
NoNormal(lines, j) == LastMark(lines, j) = 0 \/ IsEndFacet(lines[LastMark(lines, j)])

Numbers(line, from, to) == [i \in 1..(to - from + 1) |-> line[from + i - 1][1].v]

\* C10: a vertex line in NoNormal makes the decoder fail, with no point
\* returned; the failure is the vertex-before-normal error of that line
\* when the decoder reads the line, that is when no line before it fails.
\* Every point returned has the normal of the last facet normal line before
\* its vertex line, with no endfacet line in between.
C10_TwoStateDecoder ==
  (Done /\ request.method = "_load_stl_points_text") =>
    LET lines == request.lines
        vertices == {j \in 1..Len(lines) : IsVertex(lines[j])}
    IN  /\ \A j \in vertices :
             NoNormal(lines, j) =>
               /\ ~parsed.ok /\ parsed.val = <<>>
               /\ (\A i \in 1..(j - 1) : CleanLine(lines[i]) /\ (IsVertex(lines[i]) => ~NoNormal(lines, i)))
                    => parsed = CADParseError("Encountered vertex before a facet normal definition", j)
        /\ parsed.ok =>
             /\ Len(parsed.val) = Cardinality(vertices)
             /\ \A k \in 1..Len(parsed.val) :
                  LET j == Nth(vertices, k)
                      f == LastMark(lines, j)
                  IN  /\ f > 0 /\ IsFacetNormal(lines[f])
                      /\ parsed.val[k] = PointData(Numbers(lines[j], 2, 4), Numbers(lines[f], 3, 5))

\* Two vertices under two different facet normals have been decoded.
C10_Witness ==
  /\ Done /\ request.method = "_load_stl_points_text"
  /\ parsed.ok /\ Len(parsed.val) = 2
  /\ parsed.val[1].normal # parsed.val[2].normal

====
